---- MODULE Spec2Model ----
(***************************************************************************)
(* TFTP server of async-tftp-rs: the dispatcher loop of TftpServer::serve, *)
(* the Request Registry (reqs_in_progress), the handler lock, and the      *)
(* per-request tasks run_req spawns (src/server/server.rs).                *)
(***************************************************************************)
EXTENDS Integers, Naturals, Sequences, FiniteSets, TLC

\* ---------------------------------------------------------------- bounds
\* task slots of the executor (tasks alive at once)
MaxTasks == 2

\* peer addresses (SocketAddr) that send datagrams
Peers == {"p1", "p2"}
NoPeer == "nobody"
TaskIds == 1..MaxTasks

\* ------------------------------------------------------- packets, decode
PacketKinds == {"Rrq", "Wrq", "Data", "Ack", "Error", "OptionAck"}
Datagrams == PacketKinds \cup {"Garbage"}

\* Packet::decode(data): Ok(packet) or Err(_)
Decode(d) ==
  IF d \in PacketKinds THEN [ok |-> TRUE, packet |-> d]
                       ELSE [ok |-> FALSE, packet |-> "none"]

IsRequest_accept_all(dec) == dec.ok

\* the match of handle_req_packet: only Ok(Rrq) and Ok(Wrq) go on
IsRequest(dec) == dec.ok /\ dec.packet \in {"Rrq", "Wrq"}

Insert_forgets(set, peer) == [set |-> set, inserted |-> peer \notin set]

Insert_always_new(set, peer) == [set |-> set \cup {peer}, inserted |-> TRUE]

\* HashSet::insert: TRUE iff the value was not present
Insert(set, peer) == [set |-> set \cup {peer}, inserted |-> peer \notin set]

Remove_noop(set, peer) == set

\* HashSet::remove
Remove(set, peer) == set \ {peer}

\* ------------------------------------------------------------------ state
VARIABLES
  srv,               \* position of the dispatcher loop of serve
  rx,                \* (peer, data) of the datagram being handled
  reqs_in_progress,  \* the Request Registry
  reqsLock,          \* holder of the reqs_in_progress mutex
  handlerLock,       \* holder of the handler mutex
  tasks,             \* the tasks spawned on the executor
  rcfg,              \* one read transfer: file length and negotiated options
  rd,                \* one read transfer: its TransferState
  log,               \* one read transfer: packets sent and timeouts, in order
  wcfg,              \* one write transfer: client file length, negotiated options
  wr,                \* one write transfer: its TransferState
  sink               \* one write transfer: the payloads passed to the sink

svars == <<srv, rx, reqs_in_progress, reqsLock, handlerLock, tasks>>
rvars == <<rcfg, rd, log>>
wvars == <<wcfg, wr, sink>>
vars == <<srv, rx, reqs_in_progress, reqsLock, handlerLock, tasks, rcfg, rd, log,
          wcfg, wr, sink>>

\* holders of a mutex
Free == [who |-> "free", id |-> 0]
Disp == [who |-> "disp", id |-> 0]
Task(t) == [who |-> "task", id |-> t]

NoDgram == [peer |-> NoPeer, data |-> "none"]

NoTask == [peer |-> NoPeer, kind |-> "none", pc |-> "none", started |-> FALSE,
           outcome |-> "none", cause |-> "none", res |-> "none",
           errTries |-> 0, errRes |-> "none",
           sock |-> "none", errSock |-> "none", errPkt |-> "none"]

TransferCauses == {"io", "protocol", "retries"}

Live(t) == tasks[t].pc # "none"

FreeIds == {t \in TaskIds : tasks[t].pc = "none"}

NextId == CHOOSE t \in FreeIds : \A u \in FreeIds : t <= u

Running_after_return == TRUE

\* the executor polls its tasks only inside self.ex.run(..) of serve
Running == srv # "returned"

TypeOK ==
  /\ srv \in {"recv", "decode", "lock", "insert", "returned"}
  /\ rx \in [peer : Peers \cup {NoPeer}, data : Datagrams \cup {"none"}]
  /\ reqs_in_progress \subseteq Peers
  /\ reqsLock \in {Free, Disp} \cup {Task(t) : t \in TaskIds}
  /\ handlerLock \in {Free} \cup {Task(t) : t \in TaskIds}
  /\ \A t \in TaskIds :
       /\ tasks[t].peer \in Peers \cup {NoPeer}
       /\ tasks[t].pc \in {"none", "lock_handler", "open", "init", "handle",
                           "send_error", "send_to", "lock_reqs", "remove"}

\* the server right after construction
ServerInit ==
  /\ srv = "recv"
  /\ rx = NoDgram
  /\ reqs_in_progress = {}
  /\ reqsLock = Free
  /\ handlerLock = Free
  /\ tasks = [t \in TaskIds |-> NoTask]

NoCfg == [fileLen |-> 0, blksize |-> 1, max_send_retries |-> 0, oack |-> FALSE]

NoPkt == [k |-> "none", block |-> 0, len |-> 0]

NoRead == [state |-> "Idle", block |-> 0, retries |-> 0, offset |-> 0,
           final |-> FALSE, last |-> NoPkt, err |-> "none", ev |-> NoPkt]

NoWrite == [state |-> "Idle", expected |-> 0, retries |-> 0, last |-> NoPkt,
            err |-> "none", ev |-> NoPkt, sent |-> NoPkt]

\* no read transfer under way
ReadIdle ==
  /\ rcfg = NoCfg
  /\ rd = NoRead
  /\ log = <<>>

\* no write transfer under way
WriteIdle ==
  /\ wcfg = NoCfg
  /\ wr = NoWrite
  /\ sink = <<>>

Init ==
  /\ ServerInit
  /\ ReadIdle
  /\ WriteIdle

\* ------------------------------------------------------------- dispatcher
\* self.socket.recv_from(&mut buf).await returns Ok((len, peer))
Recv(peer, d) ==
  /\ srv = "recv"
  /\ (Decode(d).ok /\ Decode(d).packet \in {"Rrq", "Wrq"}) => FreeIds # {}
  /\ srv' = "decode"
  /\ rx' = [peer |-> peer, data |-> d]
  /\ UNCHANGED <<reqs_in_progress, reqsLock, handlerLock, tasks>>
  /\ UNCHANGED rvars
  /\ UNCHANGED wvars

\* recv_from returns Err: `?` makes serve return the error
RecvErr ==
  /\ srv = "recv"
  /\ srv' = "returned"
  /\ UNCHANGED <<rx, reqs_in_progress, reqsLock, handlerLock, tasks>>
  /\ UNCHANGED rvars
  /\ UNCHANGED wvars

\* handle_req_packet: decode and match
DecodeStep ==
  /\ srv = "decode"
  /\ IF IsRequest(Decode(rx.data))
       THEN srv' = "lock" /\ rx' = rx
       ELSE srv' = "recv" /\ rx' = NoDgram
  /\ UNCHANGED <<reqs_in_progress, reqsLock, handlerLock, tasks>>
  /\ UNCHANGED rvars
  /\ UNCHANGED wvars

\* self.reqs_in_progress.lock().await
DispLock ==
  /\ srv = "lock"
  /\ reqsLock = Free
  /\ reqsLock' = Disp
  /\ srv' = "insert"
  /\ UNCHANGED <<rx, reqs_in_progress, handlerLock, tasks>>
  /\ UNCHANGED rvars
  /\ UNCHANGED wvars

\* .insert(peer), guard dropped, then handle_rrq / handle_wrq spawn run_req
DispInsert ==
  /\ srv = "insert"
  /\ reqsLock = Disp
  /\ LET r == Insert(reqs_in_progress, rx.peer) IN
       /\ reqs_in_progress' = r.set
       /\ IF r.inserted
            THEN tasks' = [tasks EXCEPT ![NextId] =
                             [NoTask EXCEPT !.peer = rx.peer,
                                            !.kind = Decode(rx.data).packet,
                                            !.pc = "lock_handler"]]
            ELSE tasks' = tasks
  /\ reqsLock' = Free
  /\ srv' = "recv"
  /\ rx' = NoDgram
  /\ UNCHANGED handlerLock
  /\ UNCHANGED rvars
  /\ UNCHANGED wvars


\* ------------------------------------------------------------------ tasks
TaskLockHandler_no_wait(t) ==
  /\ Running
  /\ tasks[t].pc = "lock_handler"
  /\ handlerLock' = Task(t)
  /\ tasks' = [tasks EXCEPT ![t].pc = "open"]
  /\ UNCHANGED <<srv, rx, reqs_in_progress, reqsLock>>
  /\ UNCHANGED rvars
  /\ UNCHANGED wvars

\* req_fut: handler.lock().await
TaskLockHandler(t) ==
  /\ Running
  /\ tasks[t].pc = "lock_handler"
  /\ handlerLock = Free
  /\ handlerLock' = Task(t)
  /\ tasks' = [tasks EXCEPT ![t].pc = "open"]
  /\ UNCHANGED <<srv, rx, reqs_in_progress, reqsLock>>
  /\ UNCHANGED rvars
  /\ UNCHANGED wvars

TaskOpenOk_keeps_lock(t) ==
  /\ Running
  /\ tasks[t].pc = "open"
  /\ handlerLock = Task(t)
  /\ tasks' = [tasks EXCEPT ![t].pc = "init"]
  /\ UNCHANGED <<srv, rx, reqs_in_progress, reqsLock, handlerLock>>
  /\ UNCHANGED rvars
  /\ UNCHANGED wvars

\* read_req_open / write_req_open returns Ok; the guard is dropped at the
\* end of the let statement
TaskOpenOk(t) ==
  /\ Running
  /\ tasks[t].pc = "open"
  /\ handlerLock = Task(t)
  /\ handlerLock' = Free
  /\ tasks' = [tasks EXCEPT ![t].pc = "init"]
  /\ UNCHANGED <<srv, rx, reqs_in_progress, reqsLock>>
  /\ UNCHANGED rvars
  /\ UNCHANGED wvars

TaskOpenErr_skips_error(t) ==
  /\ Running
  /\ tasks[t].pc = "open"
  /\ handlerLock = Task(t)
  /\ handlerLock' = Free
  /\ tasks' = [tasks EXCEPT ![t].pc = "lock_reqs",
                            ![t].outcome = "Failed",
                            ![t].cause = "open",
                            ![t].res = "Err"]
  /\ UNCHANGED <<srv, rx, reqs_in_progress, reqsLock>>
  /\ UNCHANGED rvars
  /\ UNCHANGED wvars

\* the open call returns Err: map_err(Error::Packet)? ends req_fut with Err
TaskOpenErr(t) ==
  /\ Running
  /\ tasks[t].pc = "open"
  /\ handlerLock = Task(t)
  /\ handlerLock' = Free
  /\ tasks' = [tasks EXCEPT ![t].pc = "send_error",
                            ![t].outcome = "Failed",
                            ![t].cause = "open",
                            ![t].res = "Err"]
  /\ UNCHANGED <<srv, rx, reqs_in_progress, reqsLock>>
  /\ UNCHANGED rvars
  /\ UNCHANGED wvars

\* ReadRequest::init / WriteRequest::init returns Ok: the state machine and
\* its socket (bound on local_ip) exist
TaskInitOk(t) ==
  /\ Running
  /\ tasks[t].pc = "init"
  /\ tasks' = [tasks EXCEPT ![t].pc = "handle", ![t].started = TRUE,
                            ![t].sock = "init"]
  /\ UNCHANGED <<srv, rx, reqs_in_progress, reqsLock, handlerLock>>
  /\ UNCHANGED rvars
  /\ UNCHANGED wvars

TaskInitErr_removes_first(t) ==
  /\ Running
  /\ tasks[t].pc = "init"
  /\ tasks' = [tasks EXCEPT ![t].pc = "send_error",
                            ![t].outcome = "Failed",
                            ![t].cause = "init",
                            ![t].res = "Err"]
  /\ reqs_in_progress' = Remove(reqs_in_progress, tasks[t].peer)
  /\ UNCHANGED <<srv, rx, reqsLock, handlerLock>>
  /\ UNCHANGED rvars
  /\ UNCHANGED wvars

\* init returns Err: `?` ends req_fut with Err
TaskInitErr(t) ==
  /\ Running
  /\ tasks[t].pc = "init"
  /\ tasks' = [tasks EXCEPT ![t].pc = "send_error",
                            ![t].outcome = "Failed",
                            ![t].cause = "init",
                            ![t].res = "Err"]
  /\ UNCHANGED <<srv, rx, reqs_in_progress, reqsLock, handlerLock>>
  /\ UNCHANGED rvars
  /\ UNCHANGED wvars

\* read_req.handle().await / write_req.handle().await ends with the transfer
\* complete; req_fut returns Ok(()) and run_req goes on to the removal
TaskHandleComplete(t) ==
  /\ Running
  /\ tasks[t].pc = "handle"
  /\ tasks' = [tasks EXCEPT ![t].pc = "lock_reqs",
                            ![t].outcome = "Complete",
                            ![t].res = "Ok"]
  /\ UNCHANGED <<srv, rx, reqs_in_progress, reqsLock, handlerLock>>
  /\ UNCHANGED rvars
  /\ UNCHANGED wvars

TaskHandleFailed_stops_serve(t, cause) ==
  /\ Running
  /\ tasks[t].pc = "handle"
  /\ tasks' = [tasks EXCEPT ![t].pc = "lock_reqs",
                            ![t].outcome = "Failed",
                            ![t].cause = cause,
                            ![t].res = "Ok"]
  /\ srv' = "returned"
  /\ UNCHANGED <<rx, reqs_in_progress, reqsLock, handlerLock>>
  /\ UNCHANGED rvars
  /\ UNCHANGED wvars

\* handle() ends with the transfer failed: its value is discarded and
\* req_fut still returns Ok(()), so run_req skips send_error
TaskHandleFailed(t, cause) ==
  /\ Running
  /\ tasks[t].pc = "handle"
  /\ tasks' = [tasks EXCEPT ![t].pc = "lock_reqs",
                            ![t].outcome = "Failed",
                            ![t].cause = cause,
                            ![t].res = "Ok"]
  /\ UNCHANGED <<srv, rx, reqs_in_progress, reqsLock, handlerLock>>
  /\ UNCHANGED rvars
  /\ UNCHANGED wvars

\* run_req calls send_error; Async::<UdpSocket>::bind(addr) succeeds: a new
\* socket, named after the call that bound it
TaskErrBindOk(t) ==
  /\ Running
  /\ tasks[t].pc = "send_error"
  /\ tasks' = [tasks EXCEPT ![t].pc = "send_to",
                            ![t].errTries = @ + 1,
                            ![t].errSock = "send_error"]
  /\ UNCHANGED <<srv, rx, reqs_in_progress, reqsLock, handlerLock>>
  /\ UNCHANGED rvars
  /\ UNCHANGED wvars

\* bind fails: send_error returns Err(Error::Bind), run_req only traces it
TaskErrBindFail(t) ==
  /\ Running
  /\ tasks[t].pc = "send_error"
  /\ tasks' = [tasks EXCEPT ![t].pc = "lock_reqs",
                            ![t].errTries = @ + 1,
                            ![t].errRes = "bind_failed"]
  /\ UNCHANGED <<srv, rx, reqs_in_progress, reqsLock, handlerLock>>
  /\ UNCHANGED rvars
  /\ UNCHANGED wvars

\* socket.send_to(&data[..], peer).await returns Ok: Packet::Error(error.into())
\* has left from the socket send_error bound
TaskErrSendOk(t) ==
  /\ Running
  /\ tasks[t].pc = "send_to"
  /\ tasks' = [tasks EXCEPT ![t].pc = "lock_reqs", ![t].errRes = "sent",
                            ![t].errPkt = tasks[t].cause]
  /\ UNCHANGED <<srv, rx, reqs_in_progress, reqsLock, handlerLock>>
  /\ UNCHANGED rvars
  /\ UNCHANGED wvars

TaskErrSendFail_propagates(t) ==
  /\ Running
  /\ tasks[t].pc = "send_to"
  /\ tasks' = [tasks EXCEPT ![t] = NoTask]
  /\ UNCHANGED <<srv, rx, reqs_in_progress, reqsLock, handlerLock>>
  /\ UNCHANGED rvars
  /\ UNCHANGED wvars

TaskErrSendFail_retries(t) ==
  /\ Running
  /\ tasks[t].pc = "send_to"
  /\ tasks' = [tasks EXCEPT ![t].pc = "send_error",
                            ![t].errRes = "send_failed"]
  /\ UNCHANGED <<srv, rx, reqs_in_progress, reqsLock, handlerLock>>
  /\ UNCHANGED rvars
  /\ UNCHANGED wvars

\* send_to returns Err: send_error returns it, run_req only traces it
TaskErrSendFail(t) ==
  /\ Running
  /\ tasks[t].pc = "send_to"
  /\ tasks' = [tasks EXCEPT ![t].pc = "lock_reqs",
                            ![t].errRes = "send_failed"]
  /\ UNCHANGED <<srv, rx, reqs_in_progress, reqsLock, handlerLock>>
  /\ UNCHANGED rvars
  /\ UNCHANGED wvars

\* run_req: reqs_in_progress.lock().await
TaskLockReqs(t) ==
  /\ Running
  /\ tasks[t].pc = "lock_reqs"
  /\ reqsLock = Free
  /\ reqsLock' = Task(t)
  /\ tasks' = [tasks EXCEPT ![t].pc = "remove"]
  /\ UNCHANGED <<srv, rx, reqs_in_progress, handlerLock>>
  /\ UNCHANGED rvars
  /\ UNCHANGED wvars

TaskRemove_keeps_lock(t) ==
  /\ Running
  /\ tasks[t].pc = "remove"
  /\ reqsLock = Task(t)
  /\ reqs_in_progress' = Remove(reqs_in_progress, tasks[t].peer)
  /\ tasks' = [tasks EXCEPT ![t] = NoTask]
  /\ UNCHANGED <<srv, rx, handlerLock, reqsLock>>
  /\ UNCHANGED rvars
  /\ UNCHANGED wvars

\* .remove(&peer); the guard is dropped, run_req returns and the executor
\* drops the finished task
TaskRemove(t) ==
  /\ Running
  /\ tasks[t].pc = "remove"
  /\ reqsLock = Task(t)
  /\ reqs_in_progress' = Remove(reqs_in_progress, tasks[t].peer)
  /\ reqsLock' = Free
  /\ tasks' = [tasks EXCEPT ![t] = NoTask]
  /\ UNCHANGED <<srv, rx, handlerLock>>
  /\ UNCHANGED rvars
  /\ UNCHANGED wvars

TaskStep(t) ==
  \/ TaskLockHandler(t)
  \/ TaskOpenOk(t)
  \/ TaskOpenErr(t)
  \/ TaskInitOk(t)
  \/ TaskInitErr(t)
  \/ TaskHandleComplete(t)
  \/ \E c \in TransferCauses : TaskHandleFailed(t, c)
  \/ TaskErrBindOk(t)
  \/ TaskErrBindFail(t)
  \/ TaskErrSendOk(t)
  \/ TaskErrSendFail(t)
  \/ TaskLockReqs(t)
  \/ TaskRemove(t)

DispStep ==
  \/ \E p \in Peers, d \in Datagrams : Recv(p, d)
  \/ RecvErr
  \/ DecodeStep
  \/ DispLock
  \/ DispInsert

Next ==
  \/ DispStep
  \/ \E t \in TaskIds : TaskStep(t)

Spec == Init /\ [][Next]_vars

\* Fairness of the executor and of async_lock::Mutex: a task that can run is
\* run, a task waiting for a lock that keeps becoming free is eventually
\* granted it (strong fairness of the task's step), and the dispatcher
\* finishes the insert it holds the lock for.
FairSpec ==
  /\ Spec
  /\ \A t \in TaskIds : SF_vars(TaskStep(t))
  /\ WF_vars(DispInsert)

\* ------------------------------------------ read-transfer state machine
\* (ReadRequest::handle, section 4.3 of the specification)
MaxFileLen == 4
MaxBlockSize == 2
MaxRetries == 2

\* block numbers are unsigned 16-bit, wrapping
BlockModulus == 2^16

AckBlocks == 0..(MaxFileLen + 2)

Min(a, b) == IF a <= b THEN a ELSE b

Data(b, n) == [k |-> "Data", block |-> b, len |-> n]
OptionAck == [k |-> "OptionAck", block |-> 0, len |-> 0]
Ack(b) == [k |-> "Ack", block |-> b, len |-> 0]
Timeout == [k |-> "timeout", block |-> 0, len |-> 0]
PeerError == [k |-> "Error", block |-> 0, len |-> 0]

Active == rd.state \in {"Negotiating", "Sending", "AwaitingAck"}

InitRead ==
  /\ ServerInit
  /\ rcfg \in [fileLen : 0..MaxFileLen, blksize : 1..MaxBlockSize,
               max_send_retries : 0..MaxRetries, oack : BOOLEAN]
  /\ rd = [NoRead EXCEPT !.state = "Start"]
  /\ log = <<>>
  /\ WriteIdle

\* Negotiating: with options to acknowledge send OptionAck and await Ack(0),
\* otherwise go straight to the first Data
RdStart ==
  /\ rd.state = "Start"
  /\ IF rcfg.oack
       THEN /\ rd' = [rd EXCEPT !.state = "Negotiating", !.last = OptionAck]
            /\ log' = Append(log, OptionAck)
       ELSE /\ rd' = [rd EXCEPT !.state = "Sending", !.block = 1]
            /\ log' = log
  /\ UNCHANGED <<rcfg, svars, wvars>>

RdFinal_at_eof(n, offset) == offset = rcfg.fileLen

\* fewer bytes than the block size were read: this is the final block
RdFinal(n, offset) == n < rcfg.blksize

\* Sending: read up to blksize bytes from the source and send Data(block)
RdSend ==
  /\ rd.state = "Sending"
  /\ LET n == Min(rcfg.blksize, rcfg.fileLen - rd.offset) IN
       /\ rd' = [rd EXCEPT !.state = "AwaitingAck",
                           !.offset = @ + n,
                           !.final = RdFinal(n, rd.offset + n),
                           !.retries = 0,
                           !.last = Data(rd.block, n),
                           !.ev = NoPkt]
       /\ log' = Append(log, Data(rd.block, n))
  /\ UNCHANGED <<rcfg, svars, wvars>>

\* Sending: the read of the source fails
RdReadErr ==
  /\ rd.state = "Sending"
  /\ rd' = [rd EXCEPT !.state = "Failed", !.err = "io"]
  /\ UNCHANGED <<rcfg, log, svars, wvars>>

RetriesLeft_one_more(retries) == retries <= rcfg.max_send_retries

\* the packet may be resent while fewer than max_send_retries resends were made
RetriesLeft(retries) == retries < rcfg.max_send_retries

\* the wait for the Ack times out: resend the last packet and count the retry,
\* or fail once the retries are used up
RdTimeout ==
  /\ rd.state \in {"Negotiating", "AwaitingAck"}
  /\ IF RetriesLeft(rd.retries)
       THEN /\ rd' = [rd EXCEPT !.retries = @ + 1, !.ev = Timeout]
            /\ log' = log \o <<Timeout, rd.last>>
       ELSE /\ rd' = [rd EXCEPT !.state = "Failed", !.err = "timeout",
                                !.ev = Timeout]
            /\ log' = Append(log, Timeout)
  /\ UNCHANGED <<rcfg, svars, wvars>>

RdAck_accepts_newer(b) ==
  /\ rd.state \in {"Negotiating", "AwaitingAck"}
  /\ IF rd.state = "Negotiating"
       THEN rd' = [rd EXCEPT !.state = "Sending", !.block = 1,
                             !.retries = 0, !.ev = Ack(b)]
       ELSE IF b >= rd.block
              THEN IF rd.final
                     THEN rd' = [rd EXCEPT !.state = "Complete", !.ev = Ack(b)]
                     ELSE rd' = [rd EXCEPT !.state = "Sending",
                                           !.block = (b + 1) % BlockModulus,
                                           !.ev = Ack(b)]
              ELSE rd' = [rd EXCEPT !.ev = Ack(b)]
  /\ UNCHANGED <<rcfg, log, svars, wvars>>

\* an Ack arrives: the awaited one advances (or completes after the final
\* block), any other is ignored
RdAck(b) ==
  /\ rd.state \in {"Negotiating", "AwaitingAck"}
  /\ IF rd.state = "Negotiating"
       THEN IF b = 0
              THEN rd' = [rd EXCEPT !.state = "Sending", !.block = 1,
                                    !.retries = 0, !.ev = Ack(b)]
              ELSE rd' = [rd EXCEPT !.ev = Ack(b)]
       ELSE IF b = rd.block
              THEN IF rd.final
                     THEN rd' = [rd EXCEPT !.state = "Complete", !.ev = Ack(b)]
                     ELSE rd' = [rd EXCEPT !.state = "Sending",
                                           !.block = (@ + 1) % BlockModulus,
                                           !.ev = Ack(b)]
              ELSE rd' = [rd EXCEPT !.ev = Ack(b)]
  /\ UNCHANGED <<rcfg, log, svars, wvars>>

\* an Error packet from the peer aborts at any state, without retry
RdPeerError ==
  /\ Active
  /\ rd' = [rd EXCEPT !.state = "Failed", !.err = "peer_error",
                      !.ev = PeerError]
  /\ UNCHANGED <<rcfg, log, svars, wvars>>

NextRead ==
  \/ RdStart
  \/ RdSend
  \/ RdReadErr
  \/ RdTimeout
  \/ \E b \in AckBlocks : RdAck(b)
  \/ RdPeerError

SpecRead == InitRead /\ [][NextRead]_vars

\* ----------------------------------------- write-transfer state machine
\* (WriteRequest::handle, section 4.4 of the specification)

\* bytes the client's Data(b) carries: the b-th block of its file
WPayloadLen(b) ==
  IF b * wcfg.blksize <= wcfg.fileLen
    THEN wcfg.blksize
    ELSE IF (b - 1) * wcfg.blksize <= wcfg.fileLen
           THEN wcfg.fileLen - (b - 1) * wcfg.blksize
           ELSE 0

\* block numbers of the Data packets the client has to send
ClientBlocks == 1..((wcfg.fileLen \div wcfg.blksize) + 1)

InitWrite ==
  /\ ServerInit
  /\ ReadIdle
  /\ wcfg \in [fileLen : 0..MaxFileLen, blksize : 1..MaxBlockSize,
               max_send_retries : 0..MaxRetries, oack : BOOLEAN]
  /\ wr = [NoWrite EXCEPT !.state = "Start"]
  /\ sink = <<>>

\* Negotiating: send OptionAck if options were negotiated, else Ack(0); then
\* await Data(1)
WrStart ==
  /\ wr.state = "Start"
  /\ LET first == IF wcfg.oack THEN OptionAck ELSE Ack(0) IN
       wr' = [wr EXCEPT !.state = "AwaitingData", !.expected = 1,
                        !.last = first, !.sent = first]
  /\ UNCHANGED <<wcfg, sink, svars, rvars>>

WrData_writes_duplicates(b) ==
  /\ wr.state = "AwaitingData"
  /\ LET n == WPayloadLen(b) IN
       IF b <= wr.expected
         THEN /\ sink' = Append(sink, Data(b, n))
              /\ IF n < wcfg.blksize
                   THEN wr' = [wr EXCEPT !.state = "Complete", !.last = Ack(b),
                                         !.ev = Data(b, n), !.sent = Ack(b)]
                   ELSE wr' = [wr EXCEPT !.expected = (b + 1) % BlockModulus,
                                         !.retries = 0, !.last = Ack(b),
                                         !.ev = Data(b, n), !.sent = Ack(b)]
         ELSE /\ wr' = [wr EXCEPT !.ev = Data(b, n), !.sent = NoPkt]
              /\ sink' = sink
  /\ UNCHANGED <<wcfg, svars, rvars>>

\* AwaitingData: a Data packet arrives. The expected block is written to the
\* sink and acknowledged (completing if it is short); a lower block re-sends
\* the prior Ack; a higher one is ignored
WrData(b) ==
  /\ wr.state = "AwaitingData"
  /\ LET n == WPayloadLen(b) IN
       IF b = wr.expected
         THEN /\ sink' = Append(sink, Data(b, n))
              /\ IF n < wcfg.blksize
                   THEN wr' = [wr EXCEPT !.state = "Complete", !.last = Ack(b),
                                         !.ev = Data(b, n), !.sent = Ack(b)]
                   ELSE wr' = [wr EXCEPT !.expected = (b + 1) % BlockModulus,
                                         !.retries = 0, !.last = Ack(b),
                                         !.ev = Data(b, n), !.sent = Ack(b)]
         ELSE IF b < wr.expected
                THEN /\ wr' = [wr EXCEPT !.ev = Data(b, n), !.sent = wr.last]
                     /\ sink' = sink
                ELSE /\ wr' = [wr EXCEPT !.ev = Data(b, n), !.sent = NoPkt]
                     /\ sink' = sink
  /\ UNCHANGED <<wcfg, svars, rvars>>

\* the write of the expected block to the sink fails
WrSinkErr ==
  /\ wr.state = "AwaitingData"
  /\ wr' = [wr EXCEPT !.state = "Failed", !.err = "io",
                      !.ev = Data(wr.expected, WPayloadLen(wr.expected)),
                      !.sent = NoPkt]
  /\ UNCHANGED <<wcfg, sink, svars, rvars>>

\* the wait for Data times out: resend the last Ack, bounded by the retries
WrTimeout ==
  /\ wr.state = "AwaitingData"
  /\ IF wr.retries < wcfg.max_send_retries
       THEN wr' = [wr EXCEPT !.retries = @ + 1, !.ev = Timeout, !.sent = wr.last]
       ELSE wr' = [wr EXCEPT !.state = "Failed", !.err = "timeout",
                             !.ev = Timeout, !.sent = NoPkt]
  /\ UNCHANGED <<wcfg, sink, svars, rvars>>

\* an Error packet from the peer aborts the transfer
WrPeerError ==
  /\ wr.state = "AwaitingData"
  /\ wr' = [wr EXCEPT !.state = "Failed", !.err = "peer_error",
                      !.ev = PeerError, !.sent = NoPkt]
  /\ UNCHANGED <<wcfg, sink, svars, rvars>>

NextWrite ==
  \/ WrStart
  \/ \E b \in ClientBlocks : WrData(b)
  \/ WrSinkErr
  \/ WrTimeout
  \/ WrPeerError

SpecWrite == InitWrite /\ [][NextWrite]_vars

\* ------------------------------------------------------------ properties
TasksOf(p) == {t \in TaskIds : Live(t) /\ tasks[t].peer = p}

\* C1: at every moment at most one transfer task exists per peer address; a
\* second Request from a peer whose task has not finished spawns no task.
C1_AtMostOneTaskPerPeer ==
  \A p \in Peers : Cardinality(TasksOf(p)) <= 1

\* the dispatcher is about to insert a peer whose first task is in its transfer
C1_Witness ==
  /\ srv = "insert"
  /\ rx.peer \in reqs_in_progress
  /\ \E t \in TaskIds : tasks[t].peer = rx.peer /\ tasks[t].pc = "handle"

\* C2: every peer in the Request Registry is eventually removed, whatever the
\* outcome of its task, as long as serve keeps running the executor.
C2_EventuallyRemoved ==
  \A p \in Peers :
    (p \in reqs_in_progress) ~> (p \notin reqs_in_progress \/ srv = "returned")

\* a task whose Error packet could not be sent is at its removal step
C2_Witness ==
  \E t \in TaskIds :
    /\ tasks[t].pc = "remove"
    /\ tasks[t].errRes = "send_failed"
    /\ tasks[t].peer \in reqs_in_progress

\* C3: a task that reached its removal has attempted exactly one Error packet
\* if its transfer ended in Failed, and none if it ended in Complete.
C3_OneErrorIffFailed ==
  \A t \in TaskIds :
    tasks[t].pc \in {"lock_reqs", "remove"} =>
      /\ tasks[t].outcome = "Failed" => tasks[t].errTries = 1
      /\ tasks[t].outcome = "Complete" => tasks[t].errTries = 0

\* C4: the step of handle_req_packet on a datagram that is no Request returns
\* to the receive and changes neither the registry, the locks nor any task.
C4_IgnoredDatagramChangesNothing ==
  [][(srv = "decode" /\ srv' # srv /\ rx.data \notin {"Rrq", "Wrq"}) =>
       /\ srv' = "recv"
       /\ UNCHANGED <<reqs_in_progress, reqsLock, handlerLock, tasks>>]_vars

\* a non-Request datagram from a peer with a running task is being handled
C4_Witness ==
  /\ srv = "decode"
  /\ rx.data \in {"Data", "Ack", "Error", "OptionAck", "Garbage"}
  /\ \E t \in TaskIds : tasks[t].peer = rx.peer /\ tasks[t].pc = "handle"

ErrSendFailed(t) == tasks[t].errRes \in {"bind_failed", "send_failed"}

\* C5: a failed Error send is attempted once and never retried, the task goes
\* on to remove its peer, and the step of the failure changes neither the
\* dispatcher, the registry nor any other task.
C5_ErrorSendFailureSwallowed ==
  /\ [](\A t \in TaskIds :
          /\ tasks[t].errTries <= 1
          /\ ErrSendFailed(t) =>
               /\ tasks[t].pc \in {"lock_reqs", "remove"}
               /\ tasks[t].errTries = 1
               /\ tasks[t].peer \in reqs_in_progress)
  /\ [][\A t \in TaskIds :
          /\ (~ErrSendFailed(t) /\ ErrSendFailed(t)') =>
               /\ UNCHANGED <<srv, rx, reqs_in_progress, reqsLock, handlerLock>>
               /\ \A u \in TaskIds \ {t} : tasks'[u] = tasks[u]
          /\ (ErrSendFailed(t) /\ tasks[t].pc = "remove" /\ tasks'[t] # tasks[t]) =>
               /\ tasks[t].peer \notin reqs_in_progress'
               /\ tasks'[t] = NoTask]_vars

\* the Error send of one task failed while another task is in its transfer
C5_Witness ==
  \E t, u \in TaskIds :
    /\ tasks[t].pc = "lock_reqs"
    /\ ErrSendFailed(t)
    /\ tasks[u].pc = "handle"

BecomesFailed(t) == tasks[t].outcome # "Failed" /\ tasks'[t].outcome = "Failed"

\* C6: the step in which one task's transfer fails changes only that task: the
\* dispatcher keeps its position, the registry is unchanged, every other task
\* is unchanged, and no lock another task holds is touched.
C6_FailureIsolated ==
  [][\A t \in TaskIds :
       BecomesFailed(t) =>
         /\ UNCHANGED <<srv, rx, reqs_in_progress, reqsLock>>
         /\ \A u \in TaskIds \ {t} : tasks'[u] = tasks[u]
         /\ handlerLock' # handlerLock => (handlerLock = Task(t) /\ handlerLock' = Free)]_vars

\* one task has failed while the task of another peer is in its transfer and
\* the dispatcher is receiving
C6_Witness ==
  \E t, u \in TaskIds :
    /\ tasks[t].outcome = "Failed"
    /\ tasks[u].pc = "handle"
    /\ tasks[u].peer # tasks[t].peer
    /\ srv = "recv"

\* C7: serve returns only out of a receive, by a step that changes nothing
\* else (no task outcome and no datagram makes it return), and after the
\* return no task runs and no registry entry is cleaned up.
C7_ServeEndsOnlyOnRecvError ==
  [][/\ (srv # "returned" /\ srv' = "returned") =>
          /\ srv = "recv"
          /\ UNCHANGED <<rx, reqs_in_progress, reqsLock, handlerLock, tasks>>
     /\ srv = "returned" => UNCHANGED vars]_vars

\* serve has returned with a task outstanding and its peer still registered
C7_Witness ==
  /\ srv = "returned"
  /\ \E t \in TaskIds : tasks[t].pc = "handle" /\ tasks[t].peer \in reqs_in_progress

\* C8: the handler lock is held exactly by the task inside its open call, the
\* registry lock exactly by the dispatcher at its insert or a task at its
\* remove; a task past its open and before its removal holds no lock, and
\* a waiter for a free lock can take it whatever the transfers are doing.
C8_NoLockAcrossTransfer ==
  /\ \A t \in TaskIds :
       /\ handlerLock = Task(t) <=> tasks[t].pc = "open"
       /\ reqsLock = Task(t) <=> tasks[t].pc = "remove"
       /\ tasks[t].pc \in {"init", "handle", "send_error", "send_to"} =>
            (handlerLock # Task(t) /\ reqsLock # Task(t))
  /\ handlerLock # Disp
  /\ reqsLock = Disp <=> srv = "insert"
  /\ \A t, u \in TaskIds :
       (tasks[t].pc = "handle" /\ Running) =>
         /\ ENABLED TaskHandleComplete(t)
         /\ (tasks[u].pc = "lock_handler" /\ \A w \in TaskIds : tasks[w].pc # "open")
              => ENABLED TaskLockHandler(u)
         /\ (srv = "lock" /\ \A w \in TaskIds : tasks[w].pc # "remove")
              => ENABLED DispLock

\* one task is in its transfer while another is inside open with the handler
\* lock
C8_Witness ==
  \E t, u \in TaskIds :
    /\ tasks[t].pc = "handle"
    /\ tasks[u].pc = "open"
    /\ handlerLock = Task(u)

\* positions of the log holding a Data packet of block b
SendsOf(b) == {i \in DOMAIN log : log[i].k = "Data" /\ log[i].block = b}

\* positions of the timeouts logged after position i
TimeoutsAfter(i) == {j \in DOMAIN log : j > i /\ log[j].k = "timeout"}

FirstSendOf(b) == CHOOSE i \in SendsOf(b) : \A j \in SendsOf(b) : i <= j

\* C9: while the transfer is active the retry counter never exceeds
\* max_send_retries; a transfer that failed by timeout while awaiting the Ack
\* of a Data packet has sent that packet once plus exactly max_send_retries
\* resends, all identical, has seen max_send_retries + 1 timeouts for it, and
\* sent nothing after the last timeout.
C9_RetryBound ==
  /\ Active => rd.retries <= rcfg.max_send_retries
  /\ (rd.state = "Failed" /\ rd.err = "timeout" /\ rd.last.k = "Data") =>
       /\ Cardinality(SendsOf(rd.block)) = 1 + rcfg.max_send_retries
       /\ \A i \in SendsOf(rd.block) : log[i] = rd.last
       /\ Cardinality(TimeoutsAfter(FirstSendOf(rd.block)))
            = rcfg.max_send_retries + 1
       /\ log[Len(log)] = Timeout

\* the second block of a transfer ran out of its two retries
C9_Witness ==
  /\ rd.state = "Failed"
  /\ rd.err = "timeout"
  /\ rd.block = 2
  /\ rcfg.max_send_retries = 2
  /\ Cardinality(SendsOf(2)) = 3

DataLog == SelectSeq(log, LAMBDA e : e.k = "Data")

FullBlocks == rcfg.fileLen \div rcfg.blksize

\* C10: a read transfer is Complete only after a Data packet shorter than the
\* block size was sent and its Ack received; the Data blocks sent are exactly
\* 1..k+1 for a file of k full blocks, blocks 1..k full and block k+1 holding
\* the rest, which is empty when the length is a multiple of the block size.
C10_FinalBlock ==
  rd.state = "Complete" =>
    /\ rd.last.k = "Data"
    /\ rd.last.len < rcfg.blksize
    /\ rd.last = DataLog[Len(DataLog)]
    /\ rd.ev = Ack(rd.last.block)
    /\ {e.block : e \in {DataLog[i] : i \in DOMAIN DataLog}} = 1..(FullBlocks + 1)
    /\ \A i \in DOMAIN DataLog :
         DataLog[i].len = IF DataLog[i].block <= FullBlocks
                            THEN rcfg.blksize
                            ELSE rcfg.fileLen - FullBlocks * rcfg.blksize
    /\ (rcfg.fileLen % rcfg.blksize = 0) => rd.last.len = 0

\* a file of two full blocks was transferred: three blocks, the last one empty
C10_Witness ==
  /\ rd.state = "Complete"
  /\ rcfg.blksize = 2
  /\ rcfg.fileLen = 4
  /\ rd.last = Data(3, 0)

\* the Ack the transfer waits for: Ack(0) after an OptionAck, else Ack(block)
Awaited == IF rd.state = "Negotiating" THEN Ack(0) ELSE Ack(rd.block)

\* C11: the block number moves only by one, in the step that receives the Ack
\* of the current block, and Data blocks are sent in order 1, 2, ... without a
\* gap; the step that receives any other Ack changes neither the state, the
\* block number nor the retry counter and sends nothing.
C11_StrictSequencing ==
  /\ [](\A i \in DOMAIN DataLog :
          /\ DataLog[i].block <= rd.block
          /\ i > 1 => DataLog[i].block \in {DataLog[i-1].block, DataLog[i-1].block + 1})
  /\ [][/\ (rd.state = "AwaitingAck" /\ rd'.block # rd.block) =>
             (rd'.ev = Ack(rd.block) /\ rd'.block = rd.block + 1 /\ log' = log)
        /\ (rd.state \in {"Negotiating", "AwaitingAck"} /\ rd'.ev.k = "Ack"
              /\ rd'.ev # Awaited) =>
             /\ rd'.state = rd.state
             /\ rd'.block = rd.block
             /\ rd'.retries = rd.retries
             /\ rd'.last = rd.last
             /\ log' = log]_vars

\* an old Ack was received while the second block awaits its Ack after a retry
C11_Witness ==
  /\ rd.state = "AwaitingAck"
  /\ rd.block = 2
  /\ rd.retries = 1
  /\ rd.ev = Ack(1)

\* blocks written to the sink so far
Written == IF wr.state = "Complete" THEN wr.expected
           ELSE IF wr.expected = 0 THEN 0 ELSE wr.expected - 1

\* C12: the step that receives a Data packet with a block number below the
\* expected one re-sends the prior Ack and changes neither the expected block,
\* the retry counter, the state nor the sink; at every moment the sink holds
\* the payloads of blocks 1..n once each, in block order.
C12_DuplicateData ==
  /\ [](/\ Len(sink) = Written
        /\ \A i \in DOMAIN sink : sink[i] = Data(i, WPayloadLen(i)))
  /\ [][(wr.state = "AwaitingData" /\ wr'.ev.k = "Data"
           /\ wr'.ev.block < wr.expected) =>
          /\ wr'.sent = wr.last
          /\ wr'.last = wr.last
          /\ wr'.expected = wr.expected
          /\ wr'.retries = wr.retries
          /\ wr'.state = wr.state
          /\ sink' = sink]_vars

\* after a retry the first block arrives again while the third is expected:
\* the Ack of block 2 is sent again
C12_Witness ==
  /\ wr.state = "AwaitingData"
  /\ wr.expected = 3
  /\ wr.retries = 1
  /\ wr.ev.k = "Data"
  /\ wr.ev.block = 1
  /\ wr.sent = Ack(2)
  /\ Len(sink) = 2

\* C13: an Error packet sent for a failed task left from the socket the
\* task's transfer state machine was given, not from another socket.
C13_ErrorFromTransferSocket ==
  \A t \in TaskIds :
    tasks[t].errRes = "sent" =>
      (tasks[t].sock # "none" /\ tasks[t].errSock = tasks[t].sock)

\* C14: the Request Registry holds exactly the peers of the tasks that were
\* spawned and have not executed their removal.
C14_RegistryIsLiveTasks ==
  reqs_in_progress = {tasks[t].peer : t \in {u \in TaskIds : Live(u)}}

\* both peers are registered: one task holds the registry lock right before
\* its removal, the other is in its transfer
C14_Witness ==
  \E t, u \in TaskIds :
    /\ tasks[t].pc = "remove"
    /\ tasks[u].pc = "handle"
    /\ reqs_in_progress = Peers

\* C15: a task whose open call failed never has its state machine initialised
\* (no transfer socket, nothing sent by a transfer), calls send_error exactly
\* once with the collaborator's error before it goes to its removal, and its
\* peer stays registered until that removal.
C15_OpenFailurePath ==
  \A t \in TaskIds :
    tasks[t].cause = "open" =>
      /\ ~tasks[t].started
      /\ tasks[t].sock = "none"
      /\ tasks[t].outcome = "Failed"
      /\ tasks[t].peer \in reqs_in_progress
      /\ tasks[t].pc \in {"send_error", "send_to", "lock_reqs", "remove"}
      /\ tasks[t].pc \in {"send_error", "send_to"} => tasks[t].errRes = "none"
      /\ tasks[t].pc \in {"lock_reqs", "remove"} =>
           /\ tasks[t].errTries = 1
           /\ tasks[t].errRes \in {"sent", "bind_failed", "send_failed"}
           /\ tasks[t].errRes = "sent" => tasks[t].errPkt = "open"

\* a write request whose open failed has sent its Error packet and is at its
\* removal
C15_Witness ==
  \E t \in TaskIds :
    /\ tasks[t].kind = "Wrq"
    /\ tasks[t].cause = "open"
    /\ tasks[t].pc = "remove"
    /\ tasks[t].errPkt = "open"

\* C16: at most one task, read or write, is inside an open call, it is the
\* holder of the handler lock, and a task past its open call no longer holds
\* the lock.
C16_OpensExclusive ==
  /\ Cardinality({t \in TaskIds : tasks[t].pc = "open"}) <= 1
  /\ \A t \in TaskIds :
       /\ tasks[t].pc = "open" => handlerLock = Task(t)
       /\ tasks[t].pc \in {"init", "handle", "send_error", "send_to",
                           "lock_reqs", "remove"} => handlerLock # Task(t)

\* a read task is inside open while a write task waits for the handler lock
C16_Witness ==
  \E t, u \in TaskIds :
    /\ tasks[t].pc = "open" /\ tasks[t].kind = "Rrq"
    /\ tasks[u].pc = "lock_handler" /\ tasks[u].kind = "Wrq"

\* C17: a peer without a task is not in the registry, and the insert of a
\* Request from such a peer registers it and spawns its task.
C17_ReAcceptance ==
  /\ [](\A p \in Peers : TasksOf(p) = {} => p \notin reqs_in_progress)
  /\ [][(srv = "insert" /\ srv' = "recv" /\ TasksOf(rx.peer) = {}) =>
          /\ rx.peer \in reqs_in_progress'
          /\ \E t \in TaskIds :
               /\ ~Live(t)
               /\ tasks'[t].peer = rx.peer
               /\ tasks'[t].pc = "lock_handler"]_vars

\* slot 2 runs the task of p2, which was spawned while slot 1 ran the task of
\* the other peer; slot 1 is free again, so the task of p1 has finished, and a
\* new Request of p1 is at the insert
C17_Witness ==
  /\ srv = "insert"
  /\ rx.peer = "p1"
  /\ tasks[1] = NoTask
  /\ tasks[2].peer = "p2"

HandlerWaiters == {t \in TaskIds : tasks[t].pc = "lock_handler"}

ReqsWaiters == {t \in TaskIds : tasks[t].pc = "lock_reqs"}

\* C18: no task holds both locks or waits for one lock while holding the
\* other, and while serve runs every lock somebody waits for is either free
\* or held by a party whose releasing step is enabled.
C18_NoDeadlock ==
  /\ \A t \in TaskIds :
       /\ ~(handlerLock = Task(t) /\ reqsLock = Task(t))
       /\ handlerLock = Task(t) => tasks[t].pc \notin {"lock_reqs", "remove"}
       /\ reqsLock = Task(t) => tasks[t].pc # "lock_handler"
  /\ (Running /\ HandlerWaiters # {}) =>
       \/ handlerLock = Free
       \/ \E u \in TaskIds : handlerLock = Task(u) /\ ENABLED TaskOpenOk(u)
  /\ (Running /\ (ReqsWaiters # {} \/ srv = "lock")) =>
       \/ reqsLock = Free
       \/ reqsLock = Disp /\ ENABLED DispInsert
       \/ \E u \in TaskIds : reqsLock = Task(u) /\ ENABLED TaskRemove(u)

\* the dispatcher waits for the registry lock, which a task holds for its
\* removal
C18_Witness ==
  /\ srv = "lock"
  /\ \E t \in TaskIds : reqsLock = Task(t) /\ tasks[t].pc = "remove"

\* C19: every task that has not removed its peer finds it in the registry, so
\* whatever it sends goes to a registered peer; a peer leaves the registry
\* only by the removal step of its task, after the transfer ended and the
\* Error send, if one was due, returned; a Request of a peer whose Error send
\* is pending is dropped at the insert.
C19_RemovalIsLast ==
  /\ [](\A t \in TaskIds : Live(t) => tasks[t].peer \in reqs_in_progress)
  /\ [][/\ \A t \in TaskIds :
             (Live(t) /\ tasks[t].peer \notin reqs_in_progress') =>
               /\ tasks[t].pc = "remove"
               /\ tasks'[t] = NoTask
               /\ tasks[t].outcome # "none"
               /\ tasks[t].res = "Err" => tasks[t].errRes # "none"
        /\ (srv = "insert" /\ srv' = "recv"
              /\ \E t \in TaskIds : /\ tasks[t].peer = rx.peer
                                    /\ tasks[t].pc \in {"send_error", "send_to"}) =>
             UNCHANGED <<tasks, reqs_in_progress>>]_vars

\* a Request arrives from a peer whose task is sending its Error packet
C19_Witness ==
  /\ srv = "insert"
  /\ \E t \in TaskIds : tasks[t].peer = rx.peer /\ tasks[t].pc = "send_to"

====
